---- MODULE Spec2Model ----
(***************************************************************************)
(* Model of the vocabulary-card plugin's core loaders:                     *)
(*   core/word_loader.py      WordLoader (load_json, validate_data,        *)
(*                            _get_target_path)                            *)
(*   core/language_config.py  LanguageConfig (from_json, to_dict)          *)
(* together with the filesystem they read.                                 *)
(***************************************************************************)
EXTENDS Integers, Sequences, FiniteSets, TLC

VARIABLES
    fs,                 \* the filesystem: regular-file path -> file
    data_path,          \* WordLoader.data_path, per loader object
    shared_words_path,  \* WordLoader.shared_words_path, per loader object
    last,               \* the most recent load_json() call and its outcome
    previous,           \* the load_json() call before it
    config,             \* outcome of the most recent LanguageConfig.from_json()
    exported,           \* outcome of to_dict() on the loaded config
    reloaded,           \* outcome of from_json() on the saved to_dict() output
    vdata,              \* argument of a direct validate_data() call
    vresult             \* its result

vars == <<fs, data_path, shared_words_path, last, previous, config, exported,
          reloaded, vdata, vresult>>

(***************************************************************************)
(* Bounds                                                                  *)
(***************************************************************************)
\* longest list handed to validate_data directly
MaxLen == 11

(***************************************************************************)
(* Python / JSON values.  Every value is a record of one shape; `kind` is  *)
(* the Python type, `atom` the label of a scalar, `items` the elements of  *)
(* a list or tuple, `fields` the key -> value mapping of a dict.           *)
(***************************************************************************)
PyNone == [kind |-> "NoneType", atom |-> "", items |-> <<>>, fields |-> <<>>]
PyStr(s) == [kind |-> "str", atom |-> s, items |-> <<>>, fields |-> <<>>]
PyInt(s) == [kind |-> "int", atom |-> s, items |-> <<>>, fields |-> <<>>]
PyList(xs) == [kind |-> "list", atom |-> "", items |-> xs, fields |-> <<>>]
PyTuple(xs) == [kind |-> "tuple", atom |-> "", items |-> xs, fields |-> <<>>]
PyDict(f) == [kind |-> "dict", atom |-> "", items |-> <<>>, fields |-> f]

\* isinstance(v, list), isinstance(v, dict)
IsList(v) == v.kind = "list"
IsDict(v) == v.kind = "dict"

\* key in d, for a dict d
HasKey(d, k) == k \in DOMAIN d.fields

Min(a, b) == IF a <= b THEN a ELSE b

(***************************************************************************)
(* Paths are sequences of components; "." is the empty sequence.           *)
(***************************************************************************)
\* Path.parent
Parent(p) == IF Len(p) = 0 THEN p ELSE SubSeq(p, 1, Len(p) - 1)
\* Path / relative
Join(p, q) == p \o q

WordsFile == <<"languages", "ja", "words.json">>
SharedFile == <<"languages", "shared.json">>
\* another language's word list, which no program of the model creates
OtherWordsFile == <<"languages", "en", "words.json">>

\* the regular files that may exist, and the directories of the layout
ConfigFile == <<"languages", "ja", "config.json">>
FilePaths == {WordsFile, SharedFile, ConfigFile}
DirPaths == {<<>>, <<"languages">>, <<"languages", "ja">>}

(***************************************************************************)
(* Outcomes of a call: a returned value or a raised exception.  `path` is  *)
(* the path the exception's message names.                                 *)
(***************************************************************************)
Return(v) == [status |-> "return", exc |-> "", path |-> <<>>, value |-> v]
Raise(e, p) == [status |-> "raise", exc |-> e, path |-> p, value |-> PyNone]
NoOutcome == [status |-> "none", exc |-> "", path |-> <<>>, value |-> PyNone]

(***************************************************************************)
(* Files.  A file that exists holds text which is either a well-formed     *)
(* JSON document or malformed.                                             *)
(***************************************************************************)
Absent == [exists |-> FALSE, wellformed |-> FALSE, doc |-> PyNone]
Text(v) == [exists |-> TRUE, wellformed |-> TRUE, doc |-> v]
Malformed == [exists |-> TRUE, wellformed |-> FALSE, doc |-> PyNone]

\* Path.exists(): true of directories as well as of regular files
Exists(p) == p \in DirPaths \/ (p \in FilePaths /\ fs[p].exists)
IsFile(p) == p \in FilePaths /\ fs[p].exists

\* with open(p) as f: json.load(f)
OpenAndParse(p) ==
    IF p \in DirPaths THEN Raise("IsADirectoryError", p)
    ELSE IF ~IsFile(p) THEN Raise("FileNotFoundError", p)
    ELSE IF ~fs[p].wellformed THEN Raise("JSONDecodeError", <<>>)
    ELSE Return(fs[p].doc)

(***************************************************************************)
(* WordLoader                                                              *)
(***************************************************************************)
Loaders == {"L1", "L2"}

\* Path(s) for the relative path strings used as shared_words_path
PathOf(s) ==
    CASE s = "" -> <<>>
      [] s = "shared.json" -> <<"shared.json">>
      [] s = "ja" -> <<"ja">>
      [] s = "ja/words.json" -> <<"ja", "words.json">>

\* the values shared_words_path is constructed with
SharedChoices ==
    {PyNone, PyStr(""), PyStr("shared.json"), PyStr("ja"), PyStr("ja/words.json")}

\* bool(v) for None and strings
Truthy(v) == v.kind # "NoneType" /\ ~(v.kind = "str" /\ v.atom = "")

\* the number of leading entries validate_data samples
SampleSize == 10

RECURSIVE ScanItems(_, _, _)
\* the for loop of validate_data over items[i..n]
ScanItems(items, i, n) ==
    IF i > n THEN TRUE
    ELSE IF ~IsDict(items[i]) THEN FALSE
    ELSE ScanItems(items, i + 1, n)

\* slip: every entry is checked, not a sample
ValidateEveryEntry(data) ==
    IF ~IsList(data) \/ Len(data.items) = 0 THEN FALSE
    ELSE ScanItems(data.items, 1, Len(data.items))

validate_data(data) ==
    IF ~IsList(data) \/ Len(data.items) = 0 THEN FALSE
    ELSE ScanItems(data.items, 1, Min(SampleSize, Len(data.items)))

\* slip: the shared word list is never consulted
TargetPathIgnoringShared(self) == data_path[self]

\* slip: the shared path is used without checking that it exists
TargetPathWithoutExistsCheck(self) ==
    IF Truthy(shared_words_path[self])
    THEN Join(Parent(Parent(data_path[self])), PathOf(shared_words_path[self].atom))
    ELSE data_path[self]

\* slip: the shared path is used only when its contents load and validate
TargetPathFallingBackOnInvalid(self) ==
    IF Truthy(shared_words_path[self])
    THEN LET shared_path ==
                 Join(Parent(Parent(data_path[self])), PathOf(shared_words_path[self].atom))
             parsed == OpenAndParse(shared_path)
         IN  IF parsed.status = "return" /\ validate_data(parsed.value)
             THEN shared_path ELSE data_path[self]
    ELSE data_path[self]

_get_target_path(self) ==
    IF Truthy(shared_words_path[self])
    THEN LET languages_dir == Parent(Parent(data_path[self]))
             shared_path == Join(languages_dir, PathOf(shared_words_path[self].atom))
         IN  IF Exists(shared_path) THEN shared_path ELSE data_path[self]
    ELSE data_path[self]

\* slip: the error message names the file that was read
LoadFromNamingTarget(self, target_path) ==
    IF ~Exists(target_path) THEN Raise("FileNotFoundError", target_path)
    ELSE LET parsed == OpenAndParse(target_path) IN
         IF parsed.status = "raise" THEN parsed
         ELSE IF ~validate_data(parsed.value)
              THEN Raise("ValueError", target_path)
              ELSE Return(parsed.value)

\* slip: the parsed data is returned without validation
LoadFromUnvalidated(self, target_path) ==
    IF ~Exists(target_path) THEN Raise("FileNotFoundError", target_path)
    ELSE OpenAndParse(target_path)

\* load_json once the target path is known
LoadFrom(self, target_path) ==
    IF ~Exists(target_path) THEN Raise("FileNotFoundError", target_path)
    ELSE LET parsed == OpenAndParse(target_path) IN
         IF parsed.status = "raise" THEN parsed
         ELSE IF ~validate_data(parsed.value)
              THEN Raise("ValueError", data_path[self])
              ELSE Return(parsed.value)

\* slip: a loader keeps what it returned and returns it again
CachedLoadJson(self) ==
    IF last.loader = self /\ last.outcome.status = "return" THEN last.outcome
    ELSE LoadFrom(self, _get_target_path(self))

load_json(self) == LoadFrom(self, _get_target_path(self))

\* load_csv always raises
load_csv(self) == Raise("NotImplementedError", <<>>)

(***************************************************************************)
(* LanguageConfig                                                          *)
(***************************************************************************)
RequiredFields == {"lang_id", "lang_name", "fonts", "styles"}
OptionalFields == {"card_size", "theme_colors", "level_filter", "shared_words_path"}
FieldNames == RequiredFields \cup OptionalFields

\* slip: the default card size with width and height exchanged
FieldDefaultSwappedSize(k) ==
    CASE k = "card_size" -> PyTuple(<<PyInt("540"), PyInt("432")>>)
      [] k = "theme_colors" -> PyList(<<>>)
      [] k = "level_filter" -> PyStr("all")
      [] k = "shared_words_path" -> PyNone

\* the dataclass defaults of the optional fields
FieldDefault(k) ==
    CASE k = "card_size" -> PyTuple(<<PyInt("432"), PyInt("540")>>)
      [] k = "theme_colors" -> PyList(<<>>)
      [] k = "level_filter" -> PyStr("all")
      [] k = "shared_words_path" -> PyNone

\* d[k] = v on a dict
SetKey(d, k, v) ==
    PyDict([x \in (DOMAIN d.fields) \cup {k} |-> IF x = k THEN v ELSE d.fields[x]])

\* cls(**data): the generated __init__ rejects unknown and missing keywords
\* and fills the defaults of the optional fields left out
Construct(data) ==
    IF ~((DOMAIN data.fields) \subseteq FieldNames) THEN Raise("TypeError", <<>>)
    ELSE IF ~(RequiredFields \subseteq DOMAIN data.fields) THEN Raise("TypeError", <<>>)
    ELSE Return([kind |-> "LanguageConfig", atom |-> "", items |-> <<>>,
                 fields |-> [k \in FieldNames |->
                                IF HasKey(data, k) THEN data.fields[k]
                                ELSE FieldDefault(k)]])

\* the body of from_json after json.load: default handling and construction
FillDefaults(data) ==
    IF ~IsDict(data) THEN Raise("TypeError", <<>>)
    ELSE LET d1 == IF HasKey(data, "card_size") /\ IsList(data.fields.card_size)
                   THEN SetKey(data, "card_size", PyTuple(data.fields.card_size.items))
                   ELSE data
             d2 == IF ~HasKey(d1, "theme_colors")
                   THEN SetKey(d1, "theme_colors", PyList(<<>>)) ELSE d1
             d3 == IF ~HasKey(d2, "level_filter")
                   THEN SetKey(d2, "level_filter", PyStr("all")) ELSE d2
             d4 == IF ~HasKey(d3, "shared_words_path")
                   THEN SetKey(d3, "shared_words_path", PyNone) ELSE d3
         IN  Construct(d4)

from_json(config_path) ==
    IF ~Exists(config_path) THEN Raise("FileNotFoundError", config_path)
    ELSE LET parsed == OpenAndParse(config_path) IN
         IF parsed.status = "raise" THEN parsed
         ELSE FillDefaults(parsed.value)

\* list(x): a tuple or list gives the list of its elements, None is not iterable
ListOf(x) ==
    IF x.kind \in {"tuple", "list"} THEN Return(PyList(x.items))
    ELSE Raise("TypeError", <<>>)

\* slip: level_filter is exported too
ToDictWithLevelFilter(self) ==
    LET size == ListOf(self.fields.card_size) IN
    IF size.status = "raise" THEN size
    ELSE Return(PyDict([lang_id |-> self.fields.lang_id,
                        lang_name |-> self.fields.lang_name,
                        fonts |-> self.fields.fonts,
                        styles |-> self.fields.styles,
                        card_size |-> size.value,
                        theme_colors |-> self.fields.theme_colors,
                        level_filter |-> self.fields.level_filter]))

to_dict(self) ==
    LET size == ListOf(self.fields.card_size) IN
    IF size.status = "raise" THEN size
    ELSE Return(PyDict([lang_id |-> self.fields.lang_id,
                        lang_name |-> self.fields.lang_name,
                        fonts |-> self.fields.fonts,
                        styles |-> self.fields.styles,
                        card_size |-> size.value,
                        theme_colors |-> self.fields.theme_colors]))

(***************************************************************************)
(* The documents the files of the model hold                               *)
(***************************************************************************)
EntryA == PyDict([word |-> PyStr("a")])
EntryB == PyDict([word |-> PyStr("b")])
NotAnEntry == PyStr("x")

ListA == PyList(<<EntryA>>)
ListB == PyList(<<EntryB, EntryA>>)
\* SampleSize entries followed by one that is no mapping
LongBadTail ==
    PyList([i \in 1..(SampleSize + 1) |-> IF i <= SampleSize THEN EntryA ELSE NotAnEntry])

WordTexts == {Malformed, Text(PyList(<<>>)), Text(ListA), Text(ListB), Text(LongBadTail)}

SampleConfig ==
    PyDict([lang_id |-> PyStr("ja"), lang_name |-> PyStr("Japanese"),
            fonts |-> PyDict(<<>>), styles |-> PyDict(<<>>),
            shared_words_path |-> PyStr("shared.json")])

\* what a writer may leave at path p
Writable(p) == IF p = ConfigFile THEN {Text(SampleConfig)} ELSE WordTexts

BlankCall == [loader |-> "", outcome |-> NoOutcome]

(***************************************************************************)
(* Operations on the loaders and the filesystem                            *)
(***************************************************************************)
\* slip: load_json keeps the resolved path in self.data_path
LoadJsonCallKeepingTarget(self) ==
    /\ last' = [loader |-> self, outcome |-> load_json(self)]
    /\ previous' = last
    /\ data_path' = [data_path EXCEPT ![self] = _get_target_path(self)]
    /\ UNCHANGED <<fs, shared_words_path, config, exported, reloaded, vdata, vresult>>

\* a caller runs self.load_json()
LoadJsonCall(self) ==
    /\ last' = [loader |-> self, outcome |-> load_json(self)]
    /\ previous' = last
    /\ UNCHANGED <<fs, data_path, shared_words_path, config, exported, reloaded,
                   vdata, vresult>>

\* a caller runs LanguageConfig.from_json(config_path)
FromJsonCall(config_path) ==
    /\ config' = from_json(config_path)
    /\ UNCHANGED <<fs, data_path, shared_words_path, last, previous, exported, reloaded,
                   vdata, vresult>>

\* another program creates or rewrites a file
WriteFile(p, text) ==
    /\ fs[p] # text
    /\ fs' = [fs EXCEPT ![p] = text]
    /\ UNCHANGED <<data_path, shared_words_path, last, previous, config, exported,
                   reloaded, vdata, vresult>>

\* another program deletes a file
DeleteFile(p) ==
    /\ fs[p].exists
    /\ fs' = [fs EXCEPT ![p] = Absent]
    /\ UNCHANGED <<data_path, shared_words_path, last, previous, config, exported,
                   reloaded, vdata, vresult>>

\* the data_path each loader is constructed with
PrimaryOf(l) == IF l = "L1" THEN WordsFile ELSE OtherWordsFile

\* WordLoader.__init__ for every loader
Constructed ==
    /\ data_path = [l \in Loaders |-> PrimaryOf(l)]
    /\ shared_words_path \in [Loaders -> SharedChoices]

\* loaders without a shared word list
ConstructedPlain ==
    /\ data_path = [l \in Loaders |-> PrimaryOf(l)]
    /\ shared_words_path = [l \in Loaders |-> PyNone]

\* nothing called yet
NoLoads == last = BlankCall /\ previous = BlankCall
NoConfig == config = NoOutcome /\ exported = NoOutcome /\ reloaded = NoOutcome
NoValidate == vdata = PyNone /\ vresult = "pending"

Init ==
    /\ fs = [p \in FilePaths |-> Absent]
    /\ Constructed
    /\ NoLoads /\ NoConfig /\ NoValidate

Reads ==
    \/ \E self \in Loaders : LoadJsonCall(self)
    \/ \E p \in FilePaths : FromJsonCall(p)

\* the word-list files other programs maintain
WordFiles == {WordsFile, SharedFile}

Writes ==
    \/ \E p \in WordFiles : \E text \in Writable(p) : WriteFile(p, text)
    \/ \E p \in WordFiles : DeleteFile(p)

Next ==
    \/ \E self \in Loaders : LoadJsonCall(self)
    \/ Writes

\* loaders called while other programs change the files
Spec == Init /\ [][Next]_vars

\* any state of the files, and no writer
InitReadOnly ==
    /\ fs \in {f \in [FilePaths -> WordTexts \cup {Absent, Text(SampleConfig)}] :
                 \A p \in FilePaths : f[p] \in Writable(p) \cup {Absent}}
    /\ Constructed
    /\ NoLoads /\ NoConfig /\ NoValidate

SpecReadOnly == InitReadOnly /\ [][Reads]_vars

(***************************************************************************)
(* validate_data called directly on arbitrary data                         *)
(***************************************************************************)
\* lists of at most MaxLen entries, each a mapping or not, and three values
\* that are no list
ValidateInputs ==
    {PyNone, PyStr("x"), EntryA}
    \cup {PyList(xs) : xs \in UNION {[1..n -> {EntryA, NotAnEntry}] : n \in 0..MaxLen}}

ValidateCall ==
    /\ vresult = "pending"
    /\ vresult' = IF validate_data(vdata) THEN "True" ELSE "False"
    /\ UNCHANGED <<fs, data_path, shared_words_path, last, previous, config,
                   exported, reloaded, vdata>>

InitValidate ==
    /\ fs = [p \in FilePaths |-> Absent]
    /\ ConstructedPlain
    /\ NoLoads /\ NoConfig
    /\ vdata \in ValidateInputs
    /\ vresult = "pending"

SpecValidate == InitValidate /\ [][ValidateCall]_vars

(***************************************************************************)
(* A config document loaded, exported with to_dict and loaded again        *)
(***************************************************************************)
\* marks a key the document leaves out
Omitted == [kind |-> "omitted", atom |-> "", items |-> <<>>, fields |-> <<>>]

AllKeys == FieldNames \cup {"extra"}

\* the values a document may give each key
KeyChoices(k) ==
    CASE k = "lang_id" -> {Omitted, PyStr("ja")}
      [] k = "lang_name" -> {Omitted, PyStr("Japanese")}
      [] k = "fonts" -> {Omitted, PyDict([title |-> PyStr("Noto")])}
      [] k = "styles" -> {PyDict(<<>>)}
      [] k = "card_size" ->
            {Omitted, PyNone, PyList(<<PyInt("800"), PyInt("600")>>)}
      [] k = "theme_colors" -> {Omitted, PyNone, PyList(<<PyStr("red")>>)}
      [] k = "level_filter" -> {Omitted, PyNone, PyStr("N5")}
      [] k = "shared_words_path" -> {Omitted, PyNone, PyStr("shared.json")}
      [] k = "extra" -> {Omitted, PyInt("1")}

\* the JSON object giving key k the value ch[k], unless that is Omitted
DocOf(ch) ==
    PyDict([k \in {x \in AllKeys : ch[x] # Omitted} |-> ch[k]])

ConfigDocs ==
    {DocOf([lang_id |-> a, lang_name |-> b, fonts |-> c, styles |-> d,
            card_size |-> e, theme_colors |-> f, level_filter |-> g,
            shared_words_path |-> h, extra |-> i]) :
        a \in KeyChoices("lang_id"), b \in KeyChoices("lang_name"),
        c \in KeyChoices("fonts"), d \in KeyChoices("styles"),
        e \in KeyChoices("card_size"), f \in KeyChoices("theme_colors"),
        g \in KeyChoices("level_filter"), h \in KeyChoices("shared_words_path"),
        i \in KeyChoices("extra")}

ConfigTexts ==
    {Absent, Malformed, Text(ListA), Text(PyNone)} \cup {Text(d) : d \in ConfigDocs}

RECURSIVE ToJson(_)
\* json.loads(json.dumps(v)): tuples come back as lists
ToJson(v) ==
    CASE v.kind \in {"tuple", "list"} ->
            PyList([i \in 1..Len(v.items) |-> ToJson(v.items[i])])
      [] v.kind = "dict" -> PyDict([k \in DOMAIN v.fields |-> ToJson(v.fields[k])])
      [] OTHER -> v

\* config = LanguageConfig.from_json(ConfigFile)
LoadConfig ==
    /\ config.status = "none"
    /\ config' = from_json(ConfigFile)
    /\ UNCHANGED <<fs, data_path, shared_words_path, last, previous, exported,
                   reloaded, vdata, vresult>>

\* exported = config.to_dict()
Export ==
    /\ config.status = "return"
    /\ exported.status = "none"
    /\ exported' = to_dict(config.value)
    /\ UNCHANGED <<fs, data_path, shared_words_path, last, previous, config,
                   reloaded, vdata, vresult>>

\* the exported mapping is saved as JSON and loaded as a config again
Reload ==
    /\ exported.status = "return"
    /\ reloaded.status = "none"
    /\ reloaded' = FillDefaults(ToJson(exported.value))
    /\ UNCHANGED <<fs, data_path, shared_words_path, last, previous, config,
                   exported, vdata, vresult>>

InitConfig ==
    /\ \E text \in ConfigTexts :
          fs = [p \in FilePaths |-> IF p = ConfigFile THEN text ELSE Absent]
    /\ ConstructedPlain
    /\ NoLoads /\ NoConfig /\ NoValidate

NextConfig == LoadConfig \/ Export \/ Reload

SpecConfig == InitConfig /\ [][NextConfig]_vars

(***************************************************************************)
(* Notions the properties below are stated with                            *)
(***************************************************************************)
\* languages_root / shared_words_path of loader l
SharedCandidate(l) ==
    Join(Parent(Parent(data_path[l])), PathOf(shared_words_path[l].atom))

\* a non-empty list whose first min(10, length) entries are mappings
SampledValid(v) ==
    /\ v.kind = "list"
    /\ Len(v.items) > 0
    /\ \A i \in 1..Len(v.items) : i <= 10 => v.items[i].kind = "dict"

\* a non-empty list all of whose entries are mappings
AllMappings(v) ==
    /\ v.kind = "list"
    /\ Len(v.items) > 0
    /\ \A i \in 1..Len(v.items) : v.items[i].kind = "dict"

\* file p holds a well-formed document that passes validation
HoldsValid(p) == IsFile(p) /\ fs[p].wellformed /\ SampledValid(fs[p].doc)

\* loader l made the most recent load_json() call
Loaded(l) == last.loader = l

(***************************************************************************)
(* C1: when shared_words_path is set and languages_root/shared_words_path  *)
(* exists as a file, load_json() reads that shared file: it returns the    *)
(* shared file's contents whenever they are valid, and whatever it returns *)
(* is the shared file's contents, never those of data_path.                *)
(***************************************************************************)
C1_SharedFileWins ==
    \A l \in Loaders :
        (Loaded(l) /\ shared_words_path[l] # PyNone /\ IsFile(SharedCandidate(l))) =>
            /\ HoldsValid(SharedCandidate(l)) =>
                    last.outcome = Return(fs[SharedCandidate(l)].doc)
            /\ last.outcome.status = "return" =>
                    last.outcome.value = fs[SharedCandidate(l)].doc

\* the shared file and a different, valid primary file both exist and the
\* shared file's contents were returned
C1_Witness ==
    /\ Loaded("L1")
    /\ shared_words_path["L1"] = PyStr("shared.json")
    /\ fs[SharedFile] = Text(ListB)
    /\ fs[WordsFile] = Text(ListA)
    /\ last.outcome = Return(ListB)

(***************************************************************************)
(* C2: when shared_words_path is set but languages_root/shared_words_path  *)
(* does not exist, load_json() falls back to data_path: it returns the     *)
(* contents of data_path when they are valid, and an error it raises is    *)
(* one of loading data_path, never one naming the missing shared file.     *)
(***************************************************************************)
C2_MissingSharedFallsBack ==
    \A l \in Loaders :
        (Loaded(l) /\ shared_words_path[l] # PyNone /\ ~Exists(SharedCandidate(l))) =>
            /\ HoldsValid(data_path[l]) => last.outcome = Return(fs[data_path[l]].doc)
            /\ last.outcome.status = "raise" =>
                    /\ last.outcome.exc \in {"FileNotFoundError", "JSONDecodeError", "ValueError"}
                    /\ last.outcome.path \in {data_path[l], <<>>}
                    /\ last.outcome.exc = "FileNotFoundError" => ~Exists(data_path[l])

\* the shared file is missing and the primary file's contents were returned
C2_Witness ==
    /\ Loaded("L1")
    /\ shared_words_path["L1"] = PyStr("shared.json")
    /\ ~fs[SharedFile].exists
    /\ fs[WordsFile] = Text(ListA)
    /\ last.outcome = Return(ListA)

(***************************************************************************)
(* C10: the fallback is decided on existence only.  When the shared        *)
(* candidate exists as a file but is malformed or fails validation,        *)
(* load_json() raises (a parse error, respectively ValueError) and returns *)
(* nothing, also when data_path exists and is valid.                       *)
(***************************************************************************)
C10_NoFallbackOnInvalidShared ==
    \A l \in Loaders :
        (/\ Loaded(l)
         /\ shared_words_path[l] # PyNone
         /\ IsFile(SharedCandidate(l))
         /\ ~HoldsValid(SharedCandidate(l))) =>
            /\ last.outcome.status = "raise"
            /\ last.outcome.exc =
                 IF fs[SharedCandidate(l)].wellformed THEN "ValueError"
                 ELSE "JSONDecodeError"

\* the shared file is invalid, the primary file valid, and the call raised
C10_Witness ==
    /\ Loaded("L1")
    /\ shared_words_path["L1"] = PyStr("shared.json")
    /\ fs[SharedFile] = Text(PyList(<<>>))
    /\ fs[WordsFile] = Text(ListA)
    /\ last.outcome.status = "raise"

(***************************************************************************)
(* C6: the ValueError load_json() raises on failed validation names the    *)
(* configured data_path, also when the file read was the shared file.      *)
(***************************************************************************)
C6_ErrorNamesDataPath ==
    \A l \in Loaders :
        (Loaded(l) /\ last.outcome.exc = "ValueError") =>
            last.outcome.path = data_path[l]

\* the invalid file that was read is the shared file, not data_path
C6_Witness ==
    /\ Loaded("L2")
    /\ shared_words_path["L2"] = PyStr("shared.json")
    /\ fs[SharedFile] = Text(PyList(<<>>))
    /\ last.outcome = Raise("ValueError", OtherWordsFile)

(***************************************************************************)
(* C4 as claimed: load_json() either raises or returns the complete parsed *)
(* contents of the resolved file, a non-empty list of mappings.            *)
(***************************************************************************)
C4_ReturnsOnlyMappings ==
    \A l \in Loaders :
        Loaded(l) =>
            \/ last.outcome.status = "raise"
            \/ /\ last.outcome.status = "return"
               /\ last.outcome.value = fs[_get_target_path(l)].doc
               /\ AllMappings(last.outcome.value)

(***************************************************************************)
(* C4 amended: load_json() either raises (FileNotFoundError when the       *)
(* resolved path does not exist, an OS error when it is a directory, a     *)
(* parse error on malformed JSON, ValueError when validation fails) or     *)
(* returns the complete parsed contents of the resolved file, a non-empty  *)
(* list whose first min(10, length) entries are mappings.                  *)
(***************************************************************************)
C4_RaisesOrSampledValid ==
    \A l \in Loaders :
        Loaded(l) =>
            LET t == _get_target_path(l)
                o == last.outcome
            IN  \/ o.status = "raise" /\ o.exc = "FileNotFoundError" /\ ~Exists(t)
                \/ o.status = "raise" /\ o.exc = "IsADirectoryError" /\ t \in DirPaths
                \/ o.status = "raise" /\ o.exc = "JSONDecodeError"
                      /\ IsFile(t) /\ ~fs[t].wellformed
                \/ o.status = "raise" /\ o.exc = "ValueError"
                      /\ IsFile(t) /\ fs[t].wellformed /\ ~SampledValid(fs[t].doc)
                \/ o.status = "return" /\ IsFile(t) /\ fs[t].wellformed
                      /\ o.value = fs[t].doc /\ SampledValid(o.value)

\* a list whose eleventh entry is no mapping was returned
C4_Witness ==
    /\ Loaded("L1")
    /\ last.outcome = Return(LongBadTail)
    /\ ~AllMappings(last.outcome.value)

(***************************************************************************)
(* C8: loads are independent, idempotent reads.  No call changes the       *)
(* filesystem or a loader's data_path and shared_words_path, and with no   *)
(* writer every load_json() call made, on whichever loader and in          *)
(* whichever order, has the outcome a single call on that loader has.      *)
(***************************************************************************)
C8_ReadsAreIdempotent ==
    /\ [][UNCHANGED <<fs, data_path, shared_words_path>>]_vars
    /\ [](\A l \in Loaders :
             /\ last.loader = l => last.outcome = load_json(l)
             /\ previous.loader = l => previous.outcome = load_json(l))

\* from_json has been called, and load_json twice in a row on one loader
C8_Witness ==
    /\ previous.loader = "L1"
    /\ last.loader = "L1"
    /\ last.outcome.status = "return"
    /\ config.status = "return"

(***************************************************************************)
(* C7: load_json() caches nothing.  Whatever was loaded before and however *)
(* the files were created, deleted or rewritten since, the outcome of a    *)
(* call is the outcome of resolving, reading and validating against the    *)
(* filesystem as it is at that call.                                       *)
(***************************************************************************)
C7_NoCaching ==
    [][\A l \in Loaders :
          ((last' # last \/ previous' # previous) /\ last'.loader = l) =>
              last'.outcome = LoadFrom(l, _get_target_path(l))]_vars

\* one loader called twice, the file rewritten in between: the second call
\* returned the new contents
C7_Witness ==
    /\ previous.loader = "L1"
    /\ last.loader = "L1"
    /\ previous.outcome = Return(ListA)
    /\ last.outcome = Return(ListB)

(***************************************************************************)
(* C3: validate_data(data) is false when data is no list or an empty list, *)
(* false when one of the first min(10, len(data)) entries is no mapping,   *)
(* and true otherwise; entries at index 10 or later have no influence.     *)
(***************************************************************************)
C3_ValidateSamplesFirstTen ==
    vresult # "pending" =>
        /\ (vresult = "True") <=> SampledValid(vdata)
        /\ (vdata.kind = "list" /\ Len(vdata.items) > 10) =>
              ((vresult = "True") <=> validate_data(PyList(SubSeq(vdata.items, 1, 10))))

\* a list accepted although its eleventh entry is no mapping
C3_Witness ==
    /\ vresult = "True"
    /\ Len(vdata.items) = 11
    /\ vdata.items[11].kind # "dict"

(***************************************************************************)
(* Notions for the configuration properties                                *)
(***************************************************************************)
\* the documented default of each optional field
DocumentedDefault(k) ==
    CASE k = "card_size" -> PyTuple(<<PyInt("432"), PyInt("540")>>)
      [] k = "theme_colors" -> PyList(<<>>)
      [] k = "level_filter" -> PyStr("all")
      [] k = "shared_words_path" -> PyNone

\* the keys to_dict projects to
ProjectedKeys ==
    {"lang_id", "lang_name", "fonts", "styles", "card_size", "theme_colors"}

\* every optional field the document leaves out has its documented default
AbsentFieldsDefaulted ==
    \A k \in OptionalFields :
        ~HasKey(fs[ConfigFile].doc, k) => config.value.fields[k] = DocumentedDefault(k)

(***************************************************************************)
(* C5 as claimed: in the record from_json returns, each optional field the *)
(* document leaves out has its documented default, and no optional field   *)
(* is null except shared_words_path.                                       *)
(***************************************************************************)
C5_DefaultsAndNeverNull ==
    config.status = "return" =>
        /\ AbsentFieldsDefaulted
        /\ \A k \in OptionalFields :
              config.value.fields[k] = PyNone => k = "shared_words_path"

(***************************************************************************)
(* C5 amended: in the record from_json returns, each optional field the    *)
(* document leaves out has its documented default, and an optional field   *)
(* is null only if it is shared_words_path or the document itself gives    *)
(* null for it.                                                            *)
(***************************************************************************)
C5_DefaultsUnlessGiven ==
    config.status = "return" =>
        /\ AbsentFieldsDefaulted
        /\ \A k \in OptionalFields :
              config.value.fields[k] = PyNone =>
                  \/ k = "shared_words_path"
                  \/ HasKey(fs[ConfigFile].doc, k) /\ fs[ConfigFile].doc.fields[k] = PyNone

\* a document with none of the optional fields was loaded
C5_Witness ==
    /\ config.status = "return"
    /\ DOMAIN fs[ConfigFile].doc.fields = RequiredFields
    /\ config.value.fields.card_size = PyTuple(<<PyInt("432"), PyInt("540")>>)
    /\ config.value.fields.level_filter = PyStr("all")

\* to_dict gave exactly the projected keys, card_size as a list of the same
\* entries and the other five as the record holds them
ExportProjects ==
    /\ exported.status = "return"
    /\ DOMAIN exported.value.fields = ProjectedKeys
    /\ exported.value.fields.card_size = PyList(config.value.fields.card_size.items)
    /\ \A k \in ProjectedKeys \ {"card_size"} :
          exported.value.fields[k] = config.value.fields[k]

\* the reloaded record has the six projected fields of the original and the
\* defaults of the two omitted ones
ReloadReproduces ==
    /\ reloaded.status = "return"
    /\ \A k \in ProjectedKeys : reloaded.value.fields[k] = config.value.fields[k]
    /\ reloaded.value.fields.level_filter = PyStr("all")
    /\ reloaded.value.fields.shared_words_path = PyNone

(***************************************************************************)
(* C9 as claimed: to_dict() of any record gives exactly the six projected  *)
(* keys, and loading its output reproduces the six projected fields with   *)
(* level_filter = "all" and shared_words_path = None.                      *)
(***************************************************************************)
C9_ProjectionRoundTrip ==
    /\ exported.status # "none" => ExportProjects
    /\ reloaded.status # "none" => ReloadReproduces

(***************************************************************************)
(* C9 amended: for a record whose card_size is a tuple, to_dict() gives    *)
(* exactly the six projected keys, and loading its output reproduces the   *)
(* six projected fields with level_filter = "all" and shared_words_path =  *)
(* None.                                                                   *)
(***************************************************************************)
C9_ProjectionRoundTripOfTupleSize ==
    (config.status = "return" /\ config.value.fields.card_size.kind = "tuple") =>
        /\ exported.status # "none" => ExportProjects
        /\ reloaded.status # "none" => ReloadReproduces

\* a record with its own level_filter and shared_words_path was exported and
\* loaded again, and came back with the defaults of both
C9_Witness ==
    /\ reloaded.status = "return"
    /\ config.value.fields.level_filter = PyStr("N5")
    /\ config.value.fields.shared_words_path = PyStr("shared.json")
    /\ config.value.fields.card_size = PyTuple(<<PyInt("800"), PyInt("600")>>)
    /\ reloaded.value.fields.card_size = config.value.fields.card_size
    /\ reloaded.value.fields.level_filter = PyStr("all")
    /\ reloaded.value.fields.shared_words_path = PyNone

====
